---- MODULE Spec2Model ----
(***************************************************************************)
(* A model of the four data-acquisition scripts of the repository:         *)
(*   scripts/osm_power.py               fetch_overpass + per-tag drivers   *)
(*   scripts/osm_power_node_primary.py  download_tag + __main__ loop       *)
(*   scripts/peeringdb_datasets.py      fetch_json (retry) + main loop     *)
(*   scripts/submarine_cable_ingestor.py fetch_json (retry),               *)
(*                                      enrich_feature, thread-pool main   *)
(* One run of the model is one run of one script (variable script).  The   *)
(* network is the environment: every attempt draws its response from the   *)
(* set of responses the script can meet.                                   *)
(***************************************************************************)
EXTENDS Integers, Sequences, FiniteSets, TLC

-----------------------------------------------------------------------------
(* Bounds of the model (the lists of the scripts are cut to a prefix).     *)

NumNodeTags == 2
NumWayTags == 1
NumDatasets == 2
NumFeatures == 3

-----------------------------------------------------------------------------
(* Configuration constants of the scripts.                                 *)

\* osm_power.py: the ordered endpoint list.
OVERPASS_ENDPOINTS ==
    << "overpass.private.coffee", "maps.mail.ru", "overpass-api.de", "overpass.osm.jp" >>

\* osm_power_node_primary.py: its own ordered endpoint list.
NODE_PRIMARY_OVERPASS_ENDPOINTS ==
    << "overpass-api.de", "maps.mail.ru", "overpass.openstreetmap.ru",
       "overpass.private.coffee", "overpass.osm.jp" >>

AllNodeTags ==
    << "transformer", "switch", "terminal", "converter", "connection", "transition",
       "compensator", "inverter", "cable_distribution", "cable_distribution_cabinet" >>

AllWayTags == << "line", "minor_line", "cable", "switchgear", "substation" >>

AllDatasets ==
    << "org", "fac", "net", "ix", "campus", "carrier", "netfac", "ixfac", "carrierfac" >>

NODE_POWER_TAGS == SubSeq(AllNodeTags, 1, NumNodeTags)
WAY_POWER_TAGS == SubSeq(AllWayTags, 1, NumWayTags)
NODE_TAGS == SubSeq(AllNodeTags, 1, NumNodeTags)
ENDPOINTS == SubSeq(AllDatasets, 1, NumDatasets)

\* peeringdb_datasets.py MAX_RETRIES and submarine_cable_ingestor.py MAX_RETRIES.
PEERINGDB_MAX_RETRIES == 5
MAX_RETRIES == 3

\* The jitter ceilings of the two fetch_json, random.uniform(0, 0.4) and
\* random.uniform(0, 0.3), in the time unit of the model, 1/160 s.
PEERINGDB_JITTER == 64
SUBMARINE_JITTER == 48

\* submarine_cable_ingestor.py MAX_WORKERS is 50; the pool of the model is cut to 2
\* workers so that NumFeatures items queue behind it.
MAX_WORKERS == 2

Scripts ==
    { "osm_power", "osm_power_node_primary", "peeringdb_datasets",
      "submarine_cable_ingestor" }

-----------------------------------------------------------------------------
(* Python values.  A JSON object (dict) is a function whose domain is its  *)
(* set of keys; the empty dict {} is the function of empty domain.         *)

EmptyDoc == [k \in {} |-> 0]

PyNone == [type |-> "NoneType"]
PyDict(d) == [type |-> "dict", value |-> d]

\* Python truthiness of a returned value: None and {} are falsy.
Truthy(v) == v.type = "dict" /\ DOMAIN v.value # {}

\* dict.get(key, default)
Get(d, key, default) == IF key \in DOMAIN d THEN d[key] ELSE default

-----------------------------------------------------------------------------
(* The network.  One attempt ends in one response:                         *)
(*   transport  connection refused, DNS failure (URLError / RequestException)*)
(*   timeout    the per-attempt timeout expired (TimeoutError / Timeout)   *)
(*   http       a non-2xx status (HTTPError / status_code != 200)          *)
(*   malformed  status 200, the body is not JSON                           *)
(*   json       status 200, the body parses to the JSON object doc         *)

ErrorKinds == { "transport", "timeout", "http", "malformed" }

Resp(kind, doc) == [kind |-> kind, doc |-> doc]

ResponsesOf(docs) ==
    { Resp(k, EmptyDoc) : k \in ErrorKinds } \cup { Resp("json", d) : d \in docs }

\* Overpass answers: elements found, an empty elements list, no elements key.
OverpassDocs == { [elements |-> <<1>>], [elements |-> <<>>], [version |-> 6] }

\* PeeringDB answers: a dataset, and the empty object.
PeeringDocs == { [data |-> <<1>>], EmptyDoc }

\* History entries of the current fetch call.
AttemptEv(e, k, r) == [ev |-> "attempt", endpoint |-> e, attempt |-> k, resp |-> r]
SleepEv(e, k, b, w) ==
    [ev |-> "sleep", endpoint |-> e, attempt |-> k, resp |-> Resp("none", EmptyDoc),
     base |-> b, wait |-> w]

-----------------------------------------------------------------------------
VARIABLES
    script,     \* the script this run executes
    pc,         \* position of the main thread
    unit,       \* index of the unit of work (tag, dataset) of the driver loop
    endpoint,   \* fetch_overpass / download_tag: index of the endpoint of the for loop
    attempt,    \* fetch_json: the loop variable attempt
    trace,      \* history: attempts and sleeps of the current fetch call, in order
    ret,        \* value the last fetch call returned
    files,      \* output files written so far: << unit label, content >>
    success,    \* osm_power.main results["success"]
    failed,     \* osm_power.main results["failed"]
    collection, \* submarine: the cable collection the upstream serves (the input)
    features,   \* submarine main: the list features; its items are updated in place
    fut,        \* submarine: state of the future of each feature
    wattempt,   \* submarine: the loop variable attempt of the fetch_json of each worker
    launched,   \* history: how many times enrich_feature was started on each feature
    outcome,    \* history: how the detail fetch of each feature ended
    calls,      \* history: how many urlopen calls were made for each feature
    results     \* submarine main: the list results, as positions in features

fetchVars == << endpoint, attempt, trace, ret >>
driverVars == << unit, files, success, failed >>
poolVars == << features, fut, wattempt, launched, outcome, calls, results >>
vars == << script, pc, fetchVars, driverVars, collection, poolVars >>

\* The units of work of a script's driver loop, in order.
Label(prefix, tags) == [i \in 1..Len(tags) |-> prefix \o tags[i]]

Units(s) ==
    CASE s = "osm_power" -> Label("node:", NODE_POWER_TAGS) \o Label("way:", WAY_POWER_TAGS)
      [] s = "osm_power_node_primary" -> NODE_TAGS
      [] s = "peeringdb_datasets" -> ENDPOINTS
      [] OTHER -> << "cable-geo" >>

-----------------------------------------------------------------------------
(* fetch_overpass (osm_power.py) and download_tag (osm_power_node_primary) *)

Continue == [next |-> "continue", ret |-> PyNone]
Return(v) == [next |-> "return", ret |-> v]

\* Mutant of fetch_overpass_iter: the emptiness test is inverted ("if elements").
fetch_overpass_iter_inverted(r) ==
    IF r.kind \in ErrorKinds THEN Continue
    ELSE IF Get(r.doc, "elements", <<>>) # <<>> THEN Continue
    ELSE Return(PyDict(r.doc))

\* One iteration of the for loop of fetch_overpass on the response r.
fetch_overpass_iter(r) ==
    IF r.kind \in {"transport", "timeout"} THEN Continue      \* except RequestException
    ELSE IF r.kind = "http" THEN Continue                     \* status_code != 200
    ELSE IF r.kind = "malformed" THEN Continue                \* except JSONDecodeError
    ELSE LET elements == Get(r.doc, "elements", <<>>) IN
         IF elements = <<>> THEN Continue                     \* if not elements
         ELSE Return(PyDict(r.doc))

\* One iteration of the for loop of download_tag on the response r.
download_tag_iter(r) ==
    IF r.kind \in {"transport", "timeout"} THEN Continue
    ELSE IF r.kind = "http" THEN Continue
    ELSE IF r.kind = "malformed" THEN Continue
    ELSE Return(PyDict(r.doc))

\* Mutant of NextEndpoint: the loop skips an endpoint.
NextEndpointSkip(e) == e + 2

\* The for loop over an endpoint list: the endpoint tried after endpoint e.
NextEndpoint(e) == e + 1

\* A step of a failover loop: the iteration it on endpoint e of n endpoints.
FailoverStep(it, r, n) ==
    /\ trace' = Append(trace, AttemptEv(endpoint, 1, r))
    /\ IF it.next = "return"
       THEN /\ ret' = it.ret
            /\ pc' = "returned"
            /\ UNCHANGED endpoint
       ELSE IF NextEndpoint(endpoint) <= n
       THEN /\ endpoint' = NextEndpoint(endpoint)
            /\ UNCHANGED << ret, pc >>
       ELSE /\ ret' = PyNone                                  \* return None
            /\ pc' = "returned"
            /\ UNCHANGED endpoint
    /\ UNCHANGED << script, attempt, driverVars, collection, poolVars >>

FetchOverpass ==
    /\ script = "osm_power"
    /\ pc = "fetch"
    /\ \E r \in ResponsesOf(OverpassDocs) :
          FailoverStep(fetch_overpass_iter(r), r, Len(OVERPASS_ENDPOINTS))

DownloadTag ==
    /\ script = "osm_power_node_primary"
    /\ pc = "fetch"
    /\ \E r \in ResponsesOf(OverpassDocs) :
          FailoverStep(download_tag_iter(r), r, Len(NODE_PRIMARY_OVERPASS_ENDPOINTS))

\* The driver goes on to the next unit of work, or ends.
NextUnit ==
    /\ unit' = unit + 1
    /\ pc' = IF unit < Len(Units(script)) THEN "fetch" ELSE "done"
    /\ endpoint' = 1
    /\ attempt' = 1
    /\ trace' = << >>
    /\ UNCHANGED << script, ret, collection, poolVars >>

\* Mutant of ProcessTag: the result of process_*_tag is not tested, every tag is
\* recorded as a success.
ProcessTagAlwaysSuccess ==
    /\ script = "osm_power"
    /\ pc = "returned"
    /\ IF ret = PyNone
       THEN UNCHANGED files
       ELSE files' = files \cup { << Units(script)[unit], ret >> }
    /\ success' = Append(success, Units(script)[unit])
    /\ UNCHANGED failed
    /\ NextUnit

\* process_node_tag / process_way_tag and the loops of main (osm_power.py).
ProcessTag ==
    /\ script = "osm_power"
    /\ pc = "returned"
    /\ IF ret = PyNone
       THEN /\ failed' = Append(failed, Units(script)[unit])
            /\ UNCHANGED << files, success >>
       ELSE /\ files' = files \cup { << Units(script)[unit], ret >> }
            /\ success' = Append(success, Units(script)[unit])
            /\ UNCHANGED failed
    /\ NextUnit

\* The loop of __main__ (osm_power_node_primary.py).
NodePrimaryMain ==
    /\ script = "osm_power_node_primary"
    /\ pc = "returned"
    /\ IF Truthy(ret)
       THEN files' = files \cup { << Units(script)[unit], ret >> }
       ELSE UNCHANGED files
    /\ UNCHANGED << success, failed >>
    /\ NextUnit

-----------------------------------------------------------------------------
(* fetch_json (peeringdb_datasets.py, submarine_cable_ingestor.py)          *)

\* One iteration of the for loop of fetch_json: attempt k of retries on response r.
\* next is "return", "continue" (after the sleep) or "raise".
fetch_json_iter(k, r, retries) ==
    IF r.kind = "json"
    THEN [next |-> "return", ret |-> PyDict(r.doc), sleep |-> FALSE]
    ELSE IF r.kind \in {"http", "transport", "timeout"}     \* except (HTTPError, URLError, TimeoutError)
    THEN [next |-> IF k < retries THEN "continue" ELSE "return",
          ret |-> PyDict(EmptyDoc), sleep |-> TRUE]
    ELSE [next |-> "raise", ret |-> PyNone, sleep |-> FALSE]  \* JSONDecodeError is not caught

\* Mutant of Backoff: the exponent has the wrong sign (1.5 ** -attempt).
BackoffInverse(k) == (160 * 2^k) \div 3^k

\* 1.5 ** attempt, in units of 1/160 s (exact for attempt <= 5: 160 = 5 * 2^5).
Backoff(k) == (160 * 3^k) \div 2^k

\* random.uniform(0, ceiling): the two ends of the range and its middle.
Jitter(ceiling) == { 0, ceiling \div 2, ceiling }

\* wait = 1.5 ** attempt + random.uniform(0, ceiling)
Wait(k, jit) == Backoff(k) + jit

\* A step of fetch_json on the main thread; jit is the jitter drawn if it sleeps.
FetchJsonStep(r, retries, jit) ==
    LET it == fetch_json_iter(attempt, r, retries) IN
    /\ trace' = Append(trace, AttemptEv(1, attempt, r))
                    \o (IF it.sleep
                        THEN << SleepEv(1, attempt, Backoff(attempt), Wait(attempt, jit)) >>
                        ELSE << >>)
    /\ CASE it.next = "return" ->
              /\ ret' = it.ret
              /\ pc' = "returned"
              /\ UNCHANGED attempt
         [] it.next = "continue" ->
              /\ attempt' = attempt + 1
              /\ UNCHANGED << ret, pc >>
         [] OTHER ->
              /\ pc' = "raised"                               \* no handler up to __main__
              /\ UNCHANGED << ret, attempt >>
    /\ UNCHANGED << script, endpoint, driverVars, collection, poolVars >>

PeeringFetchJson ==
    /\ script = "peeringdb_datasets"
    /\ pc = "fetch"
    /\ \E r \in ResponsesOf(PeeringDocs) : \E jit \in Jitter(PEERINGDB_JITTER) :
          FetchJsonStep(r, PEERINGDB_MAX_RETRIES, jit)

\* The loop of main (peeringdb_datasets.py): the returned data is always written.
PeeringMain ==
    /\ script = "peeringdb_datasets"
    /\ pc = "returned"
    /\ files' = files \cup { << Units(script)[unit], ret >> }
    /\ UNCHANGED << success, failed >>
    /\ NextUnit

-----------------------------------------------------------------------------
(* submarine_cable_ingestor.py: enrich_feature                              *)

DETAIL_KEYS ==
    << "length", "landing_points", "owners", "suppliers", "rfs", "rfs_year",
       "is_planned", "notes", "url" >>

Range(seq) == { seq[i] : i \in 1..Len(seq) }

\* A feature of the base collection: position i is its geometry; it carries an id
\* (hasId) or not, and a name; length is an allow-listed key it may already carry.
Feature(i, hasId) ==
    [ geometry |-> i,
      properties |-> IF hasId THEN [id |-> i, name |-> i, length |-> 0]
                              ELSE [name |-> i] ]

\* Detail answers: the whole record (with keys outside the allow-list and a landing
\* point that has no name), a record that lacks most fields, and the empty object.
DetailDocs ==
    { [ id |-> 100, length |-> 7, name |-> 99,
        landing_points |-> << [id |-> 1, name |-> "Bude"], [id |-> 2] >> ],
      [ owners |-> 5 ],
      EmptyDoc }

\* [lp.get("name") for lp in landing_points if lp.get("name")]
RECURSIVE LandingPointNames(_)
LandingPointNames(lps) ==
    IF lps = << >> THEN << >>
    ELSE LET lp == Head(lps) IN
         (IF "name" \in DOMAIN lp /\ lp.name # "" THEN << lp.name >> ELSE << >>)
             \o LandingPointNames(Tail(lps))

\* Mutant of Enriched: every key of the response is copied, allow-listed or not.
EnrichedAllKeys(details) == details

\* The dict enriched that enrich_feature builds from the detail response.
Enriched(details) ==
    [ key \in { k \in Range(DETAIL_KEYS) : k \in DOMAIN details } |->
        IF key = "landing_points" THEN LandingPointNames(details[key])
        ELSE details[key] ]

\* Mutant of Update: a list-valued landing_points is extended, not replaced.
UpdateExtend(d, e) ==
    [ k \in DOMAIN d \cup DOMAIN e |->
        IF k \notin DOMAIN e THEN d[k]
        ELSE IF k = "landing_points" /\ k \in DOMAIN d THEN d[k] \o e[k]
        ELSE e[k] ]

\* dict.update
Update(d, e) == [ k \in DOMAIN d \cup DOMAIN e |-> IF k \in DOMAIN e THEN e[k] ELSE d[k] ]

\* Mutant of HasCableId: only the presence of properties is tested.
HasProperties(feature) == "properties" \in DOMAIN feature

\* cable_id = feature.get("properties", {}).get("id"); if not cable_id
HasCableId(feature) ==
    /\ "properties" \in DOMAIN feature
    /\ "id" \in DOMAIN feature.properties
    /\ feature.properties.id # 0

\* enrich_feature once fetch_json has returned details.
MergeDetails(feature, details) ==
    IF DOMAIN details = {} THEN feature                       \* if not details
    ELSE [feature EXCEPT !.properties = Update(@, Enriched(details))]

-----------------------------------------------------------------------------
(* submarine_cable_ingestor.py: main and the ThreadPoolExecutor             *)

Positions == 1..Len(features)

Running == { i \in Positions : fut[i] = "running" }

\* A future is finished when its call returned or raised.
Finished(i) == fut[i] \in {"done", "raised"}

\* Mutant of WorkerAvailable: the pool starts a thread for every submitted call.
WorkerAlwaysAvailable == TRUE

\* The pool starts a call only while fewer than max_workers threads are busy.
WorkerAvailable == Cardinality(Running) < MAX_WORKERS

\* The work queue of the pool is first in, first out.
HeadOfQueue(i) == fut[i] = "queued" /\ \A j \in 1..(i - 1) : fut[j] # "queued"

\* Mutant of AllCollected: the loop ends at the first completion.
FirstCollected(res) == Len(res) >= 1

\* The for loop over as_completed(futures) ends when it has yielded every future.
AllCollected(res) == Len(res) = Len(features)

\* results.append(feature)
AppendResult(res, i) == Append(res, i)

\* cable_geo["features"] = results; the document written to OUTPUT_FILE.
OutputDoc == Update(ret.value, [features |-> [j \in 1..Len(results) |-> features[results[j]]]])

SubmarineDocs == { [features |-> collection], [type |-> "FeatureCollection"], EmptyDoc }

\* main line 69: the base fetch.
SubmarineFetchBase ==
    /\ script = "submarine_cable_ingestor"
    /\ pc = "fetch"
    /\ \E r \in ResponsesOf(SubmarineDocs) : \E jit \in Jitter(SUBMARINE_JITTER) :
          FetchJsonStep(r, MAX_RETRIES, jit)

\* main line 70: features = cable_geo.get("features", []).
SubmarineFeatures ==
    /\ script = "submarine_cable_ingestor"
    /\ pc = "returned"
    /\ LET fs == Get(ret.value, "features", << >>) IN
       /\ features' = fs
       /\ fut' = [i \in 1..Len(fs) |-> "new"]
       /\ wattempt' = [i \in 1..Len(fs) |-> 1]
       /\ launched' = [i \in 1..Len(fs) |-> 0]
       /\ outcome' = [i \in 1..Len(fs) |-> "none"]
       /\ calls' = [i \in 1..Len(fs) |-> 0]
       /\ pc' = IF fs = << >> THEN "write" ELSE "submit"
    /\ trace' = << >>                                         \* the fetch call is over
    /\ attempt' = 1
    /\ UNCHANGED << script, endpoint, ret, driverVars, collection, results >>

\* executor.submit(enrich_feature, f) for the next f of features.
Submit ==
    /\ pc = "submit"
    /\ \E i \in Positions :
          /\ fut[i] = "new"
          /\ \A j \in 1..(i - 1) : fut[j] # "new"
          /\ fut' = [fut EXCEPT ![i] = "queued"]
          /\ pc' = IF i = Len(features) THEN "collect" ELSE "submit"
    /\ UNCHANGED << script, fetchVars, driverVars, collection,
                    features, wattempt, launched, outcome, calls, results >>

\* A pool thread takes the next work item and calls enrich_feature, up to fetch_json.
WorkerStart ==
    /\ pc \in {"submit", "collect", "shutdown"}
    /\ WorkerAvailable
    /\ \E i \in Positions :
          /\ HeadOfQueue(i)
          /\ launched' = [launched EXCEPT ![i] = @ + 1]
          /\ IF HasCableId(features[i])
             THEN /\ fut' = [fut EXCEPT ![i] = "running"]
                  /\ UNCHANGED outcome
             ELSE /\ fut' = [fut EXCEPT ![i] = "done"]          \* return feature
                  /\ outcome' = [outcome EXCEPT ![i] = "no_id"]
    /\ UNCHANGED << script, pc, fetchVars, driverVars, collection,
                    features, wattempt, calls, results >>

\* One attempt of the fetch_json of the worker on feature i, and what follows it.
WorkerAttempt ==
    /\ pc \in {"submit", "collect", "shutdown"}
    /\ \E i \in Running : \E r \in ResponsesOf(DetailDocs) :
          LET it == fetch_json_iter(wattempt[i], r, MAX_RETRIES) IN
          /\ calls' = [calls EXCEPT ![i] = @ + 1]
          /\ CASE it.next = "return" ->
                   /\ features' = [features EXCEPT ![i] = MergeDetails(@, it.ret.value)]
                   /\ fut' = [fut EXCEPT ![i] = "done"]
                   /\ outcome' = [outcome EXCEPT ![i] =
                                    IF r.kind = "json" THEN "fetched" ELSE "failed"]
                   /\ UNCHANGED wattempt
               [] it.next = "continue" ->
                   /\ wattempt' = [wattempt EXCEPT ![i] = @ + 1]
                   /\ UNCHANGED << features, fut, outcome >>
               [] OTHER ->
                   /\ fut' = [fut EXCEPT ![i] = "raised"]      \* the future keeps the exception
                   /\ outcome' = [outcome EXCEPT ![i] = "raised"]
                   /\ UNCHANGED << features, wattempt >>
    /\ UNCHANGED << script, pc, fetchVars, driverVars, collection, launched, results >>

\* as_completed yields a finished future; future.result() and results.append.
Collect ==
    /\ pc = "collect"
    /\ \E i \in Positions :
          /\ Finished(i)
          /\ \A j \in 1..Len(results) : results[j] # i
          /\ IF fut[i] = "done"
             THEN /\ results' = AppendResult(results, i)
                  /\ pc' = IF AllCollected(results') THEN "write" ELSE "collect"
             ELSE /\ pc' = "shutdown"                          \* result() re-raises
                  /\ UNCHANGED results
    /\ UNCHANGED << script, fetchVars, driverVars, collection,
                    features, fut, wattempt, launched, outcome, calls >>

\* The exception leaves the with block: shutdown(wait=True), then it reaches __main__.
ExecutorShutdown ==
    /\ pc = "shutdown"
    /\ \A i \in Positions : Finished(i)
    /\ pc' = "raised"
    /\ UNCHANGED << script, fetchVars, driverVars, collection, poolVars >>

\* main lines 82-83.
WriteOutput ==
    /\ script = "submarine_cable_ingestor"
    /\ pc = "write"
    /\ files' = files \cup { << "cable-geo-enriched", PyDict(OutputDoc) >> }
    /\ pc' = "done"
    /\ UNCHANGED << script, unit, success, failed, fetchVars, collection, poolVars >>

-----------------------------------------------------------------------------
Init ==
    /\ script \in Scripts
    /\ pc = "fetch"
    /\ unit = 1
    /\ endpoint = 1
    /\ attempt = 1
    /\ trace = << >>
    /\ ret = PyNone
    /\ files = {}
    /\ success = << >>
    /\ failed = << >>
    /\ collection \in
         IF script = "submarine_cable_ingestor"
         THEN { [i \in 1..NumFeatures |-> Feature(i, h[i])] : h \in [1..NumFeatures -> BOOLEAN] }
         ELSE { << >> }
    /\ features = << >>
    /\ fut = << >>
    /\ wattempt = << >>
    /\ launched = << >>
    /\ outcome = << >>
    /\ calls = << >>
    /\ results = << >>

Next ==
    \/ FetchOverpass
    \/ ProcessTag
    \/ DownloadTag
    \/ NodePrimaryMain
    \/ PeeringFetchJson
    \/ PeeringMain
    \/ SubmarineFetchBase
    \/ SubmarineFeatures
    \/ Submit
    \/ WorkerStart
    \/ WorkerAttempt
    \/ Collect
    \/ ExecutorShutdown
    \/ WriteOutput

Spec == Init /\ [][Next]_vars

-----------------------------------------------------------------------------
(* The merge of enrich_feature as a function of its two inputs: an item and *)
(* a detail record are drawn, and the merge is applied to the item twice.   *)

Subdict(d, keys) == [k \in keys |-> d[k]]

\* Items: every choice of properties among an id, a name, an allow-listed scalar
\* and a landing_points list the item already carries.
MergeItems ==
    LET full == [id |-> 1, name |-> 1, length |-> 0, landing_points |-> << "Old" >>]
    IN  { [geometry |-> 1, properties |-> Subdict(full, keys)] :
            keys \in SUBSET DOMAIN full }

\* Detail records: every choice of fields among two allow-listed scalars, a key
\* outside the allow-list, and a landing_points list (with a landing point that
\* has no name and one whose name is empty, or no landing point at all).
MergeRecords ==
    UNION { { Subdict([length |-> 7, owners |-> 5, name |-> 99, landing_points |-> lps],
                      keys) :
                keys \in SUBSET {"length", "owners", "name", "landing_points"} } :
            lps \in { << [id |-> 1, name |-> "Bude"], [id |-> 2], [id |-> 3, name |-> ""] >>,
                      << >> } }

InitMerge ==
    /\ script = "submarine_cable_ingestor"
    /\ pc = "merge"
    /\ unit = 1
    /\ endpoint = 1
    /\ attempt = 1
    /\ trace = << >>
    /\ ret \in { PyDict(d) : d \in MergeRecords }
    /\ files = {}
    /\ success = << >>
    /\ failed = << >>
    /\ collection \in { << item >> : item \in MergeItems }
    /\ features = collection
    /\ fut = << "done" >>
    /\ wattempt = << 1 >>
    /\ launched = << 0 >>
    /\ outcome = << "fetched" >>
    /\ calls = << 0 >>
    /\ results = << >>

\* enrich_feature from the test of details on: the record ret is merged into the item.
Merge ==
    /\ pc \in { "merge", "merged_once" }
    /\ features' = << MergeDetails(features[1], ret.value) >>
    /\ pc' = IF pc = "merge" THEN "merged_once" ELSE "merged_twice"
    /\ UNCHANGED << script, fetchVars, driverVars, collection, fut, wattempt, launched,
                    outcome, calls, results >>

NextMerge == Merge

SpecMerge == InitMerge /\ [][NextMerge]_vars

-----------------------------------------------------------------------------
(* Vocabulary of the properties.                                            *)

Submarine == script = "submarine_cable_ingestor"
Failover == script \in {"osm_power", "osm_power_node_primary"}
Retrying == script \in {"peeringdb_datasets", "submarine_cable_ingestor"}

\* The attempts of the current fetch call, without its sleeps.
Attempts == SelectSeq(trace, LAMBDA e : e.ev = "attempt")

\* An attempt that failed by transport error, timeout, non-2xx status or malformed JSON.
ErrorResp(r) == r.kind \in ErrorKinds

\* A 200 response whose JSON body has no element.
EmptyResp(r) == r.kind = "json" /\ Get(r.doc, "elements", << >>) = << >>

\* A structurally valid, non-empty payload.
PayloadResp(r) == r.kind = "json" /\ Get(r.doc, "elements", << >>) # << >>

\* A failed attempt of a failover fetcher: an error, or for fetch_overpass, whose
\* caller expects a non-empty result, an empty result.
FailedResp(r) == ErrorResp(r) \/ (script = "osm_power" /\ EmptyResp(r))

\* The endpoint list of the running failover fetcher.
EndpointsOf(s) ==
    IF s = "osm_power" THEN OVERPASS_ENDPOINTS ELSE NODE_PRIMARY_OVERPASS_ENDPOINTS

\* The features list of the document written to OUTPUT_FILE.
Written == { f[2].value.features : f \in { g \in files : g[1] = "cable-geo-enriched" } }

-----------------------------------------------------------------------------
\* C1: once the enrichment pipeline has written its output, the items of the output
\* 'features' list are the items of the input list in the same order, whatever the
\* order in which the detail fetches completed.
C1_OrderPreserved ==
    (Submarine /\ pc = "done") =>
        \A out \in Written :
            /\ Len(out) = Len(features)
            /\ \A j \in 1..Len(out) : out[j].geometry = collection[j].geometry

\* C2: an item whose detail fetch failed (transport error, non-2xx status, timeout or
\* malformed JSON) keeps its pre-enrichment fields, and the failure does not abort the
\* pipeline: main neither re-raises nor shuts the pool down on an exception.
C2_Isolation ==
    Submarine =>
        \A i \in Positions :
            outcome[i] \in {"failed", "raised"} =>
                /\ features[i] = collection[i]
                /\ pc \notin {"shutdown", "raised"}

\* C3: a fetch all of whose attempts failed (transport error, non-2xx status, timeout
\* or malformed JSON) ends by returning the failure value (None, or {} for
\* fetch_json), never a payload and never by an exception that escapes the fetcher.
C3_TerminalExhaustion ==
    (script \in {"peeringdb_datasets", "osm_power"}
       /\ pc \in {"returned", "raised"}
       /\ \A j \in 1..Len(Attempts) : ErrorResp(Attempts[j].resp)) =>
        /\ pc = "returned"
        /\ ret \in {PyNone, PyDict(EmptyDoc)}

C5_RetryCeiling ==
    (Retrying /\ pc \in {"returned", "raised"} /\ Attempts # << >>) =>
        LET R == IF script = "peeringdb_datasets" THEN PEERINGDB_MAX_RETRIES
                 ELSE MAX_RETRIES
            n == Len(Attempts) IN
        /\ \A j \in 1..n : Attempts[j].attempt = j
        /\ (\A j \in 1..n : ErrorResp(Attempts[j].resp)) => n = R
        /\ \A j \in 1..(n - 1) : Attempts[j].resp.kind # "json"
        /\ (Attempts[n].resp.kind = "json") => (n <= R /\ pc = "returned")

C7_MalformedRetried ==
    \A j \in 1..Len(trace) :
        (trace[j].ev = "attempt" /\ trace[j].resp.kind = "malformed") =>
            /\ pc # "raised"
            /\ Retrying => (j < Len(trace) /\ trace[j + 1].ev = "sleep")

\* C8: a bulk Overpass enumeration never returns as Success a payload whose
\* 'elements' is empty or missing (such a response is a failed attempt), while the
\* detail fetch returns an empty or field-less JSON body at once, at any attempt.
C8_EmptyResultPolicy ==
    /\ (Failover /\ pc = "returned" /\ ret # PyNone) =>
          Get(ret.value, "elements", << >>) # << >>
    /\ \A k \in 1..MAX_RETRIES : \A d \in DetailDocs :
          fetch_json_iter(k, Resp("json", d), MAX_RETRIES)
              = [next |-> "return", ret |-> PyDict(d), sleep |-> FALSE]

\* C9: never more than MAX_WORKERS detail operations are in flight.
C9_BoundedConcurrency == Cardinality(Running) <= MAX_WORKERS

\* C9 witness: the pool is full and a submitted item waits in its queue.
C9_Witness ==
    /\ Cardinality(Running) = MAX_WORKERS
    /\ \E i \in Positions : fut[i] = "queued"
    /\ pc = "collect"

\* C10: when the output is written, enrich_feature has been started exactly once on
\* every input item and has returned, and the output holds exactly one entry per
\* input item.
C10_ExactlyOnce ==
    (Submarine /\ pc = "done") =>
        /\ \A i \in Positions : launched[i] = 1 /\ fut[i] = "done"
        /\ \A out \in Written :
              /\ Len(out) = Len(features)
              /\ \A i \in Positions :
                    Cardinality({ j \in 1..Len(out) : out[j].geometry = i }) = 1

\* C10 witness: the output of a full collection was written after the items
\* completed out of order.
C10_Witness ==
    /\ Submarine
    /\ pc = "done"
    /\ Len(features) = NumFeatures
    /\ results[1] # 1
    /\ \E i \in Positions : outcome[i] = "failed"

\* C11: for an item without an id, enrich_feature makes no network call and returns
\* the item with every field unchanged; its future ends normally, not by an error.
C11_PassThrough ==
    Submarine =>
        \A i \in Positions :
            ("id" \notin DOMAIN collection[i].properties) =>
                /\ calls[i] = 0
                /\ features[i] = collection[i]
                /\ fut[i] \in {"new", "queued", "done"}
                /\ (launched[i] >= 1) => (fut[i] = "done" /\ outcome[i] = "no_id")

\* C11 witness: the output was written and holds an item without id that went
\* through enrich_feature, beside an item that was fetched.
C11_Witness ==
    /\ Submarine
    /\ pc = "done"
    /\ \E i \in Positions :
          /\ "id" \notin DOMAIN collection[i].properties
          /\ launched[i] = 1
          /\ outcome[i] = "no_id"
    /\ \E i \in Positions : outcome[i] = "fetched" /\ calls[i] >= 1

\* The item new differs from the item old only in properties keys that are in
\* DETAIL_KEYS and in the response d; no key is removed.
AllowList == Range(DETAIL_KEYS)

FrameOf(old, new, d) ==
    LET merged == AllowList \cap DOMAIN d IN
    /\ DOMAIN new = DOMAIN old
    /\ new.geometry = old.geometry
    /\ DOMAIN new.properties = DOMAIN old.properties \cup merged
    /\ \A k \in DOMAIN old.properties \ merged : new.properties[k] = old.properties[k]

\* C12: an item whose detail fetch returned a response differs from the input item
\* only in allow-listed properties present in that response (geometry, id, the other
\* properties and the allow-listed properties absent from the response are kept, no
\* key is removed); every other item equals the input item.
C12_MergeFrame ==
    Submarine =>
        \A i \in Positions :
            \/ features[i] = collection[i]
            \/ /\ outcome[i] = "fetched"
               /\ \E d \in DetailDocs : FrameOf(collection[i], features[i], d)

\* C12 witness: one item was merged with the whole record (its name and id kept, its
\* landing points added) while another item, not fetched yet, is untouched.
C12_Witness ==
    /\ Submarine
    /\ \E i \in Positions :
          /\ outcome[i] = "fetched"
          /\ features[i].properties.id = i
          /\ features[i].properties.name = i
          /\ features[i].properties.length = 7
          /\ "landing_points" \in DOMAIN features[i].properties
    /\ \E i \in Positions : fut[i] = "running" /\ features[i] = collection[i]

\* The fetch call of the current unit of work has ended in terminal failure: the
\* failover fetchers returned None, fetch_json used up its retries.
TerminalFailure ==
    /\ pc = "returned"
    /\ IF Failover THEN ret = PyNone
       ELSE Attempts # << >> /\ ErrorResp(Attempts[Len(Attempts)].resp)

\* C13: when the fetch of a unit of work (tag, dataset) ends in terminal failure, the
\* driver writes no file for that unit and goes on to the next unit (or ends the run
\* normally after the last one): the failure does not abort the run.
C13_SkipPolicy ==
    [][ (script \in {"osm_power", "osm_power_node_primary", "peeringdb_datasets"}
           /\ TerminalFailure) =>
              /\ files' = files
              /\ unit' = unit + 1
              /\ pc' \in {"fetch", "done"} ]_vars

\* Position of the label l in the sequence seq (0 when absent).
IndexIn(seq, l) ==
    IF \E j \in 1..Len(seq) : seq[j] = l
    THEN CHOOSE j \in 1..Len(seq) : seq[j] = l
    ELSE 0

\* The labels of seq come in the order of the list of units.
InListOrder(seq) ==
    \A j, k \in 1..Len(seq) :
        j < k => IndexIn(Units(script), seq[j]) < IndexIn(Units(script), seq[k])

\* C14: in osm_power.py the tags handled so far (node tags first, then way tags) are
\* each recorded once, in list order, in exactly one of success and failed, a tag
\* being in success exactly when its fetch returned a payload (which was saved); at
\* the end of the run |success| + |failed| is the number of configured tags.
C14_SummaryPartition ==
    (script = "osm_power") =>
        LET U == Units(script) IN
        /\ Len(success) + Len(failed) = unit - 1
        /\ (pc = "done") => (unit - 1 = Len(U))
        /\ \A u \in 1..(unit - 1) :
              /\ Cardinality({ j \in 1..Len(success) : success[j] = U[u] })
                    + Cardinality({ j \in 1..Len(failed) : failed[j] = U[u] }) = 1
              /\ (IndexIn(success, U[u]) # 0) <=>
                    (\E f \in files : f[1] = U[u] /\ PayloadResp(Resp("json", f[2].value)))
        /\ InListOrder(success)
        /\ InListOrder(failed)

\* C14 witness: the run of osm_power.py is over, a node tag failed on every endpoint
\* and the way tag succeeded.
C14_Witness ==
    /\ script = "osm_power"
    /\ pc = "done"
    /\ Len(success) + Len(failed) = NumNodeTags + NumWayTags
    /\ failed # << >>
    /\ failed[1] = "node:transformer"
    /\ IndexIn(success, "way:line") # 0

\* The sleeps of the current fetch_json call, in order.
Sleeps == SelectSeq(trace, LAMBDA e : e.ev = "sleep")

JitterCeiling == IF script = "peeringdb_datasets" THEN PEERINGDB_JITTER ELSE SUBMARINE_JITTER

\* C15: the deterministic component of the delay after failed attempt k is 1.5^k
\* (base * 2^k = 160 * 3^k in units of 1/160 s), it does not decrease from one sleep
\* of a call to the next, and each delay lies in [1.5^k, 1.5^k + jitter ceiling].
C15_BackoffGrowth ==
    Retrying =>
        /\ \A j \in 1..Len(Sleeps) :
              /\ Sleeps[j].attempt = j
              /\ Sleeps[j].base * 2^j = 160 * 3^j
              /\ Sleeps[j].base <= Sleeps[j].wait
              /\ Sleeps[j].wait <= Sleeps[j].base + JitterCeiling
        /\ \A j \in 1..(Len(Sleeps) - 1) : Sleeps[j].base <= Sleeps[j + 1].base

\* C15 witness: the five attempts of a peeringdb fetch_json failed; the first delay
\* had no jitter, the last one the whole jitter (1.5 s and 7.59375 s + 0.4 s).
C15_Witness ==
    /\ script = "peeringdb_datasets"
    /\ pc = "returned"
    /\ Len(Sleeps) = PEERINGDB_MAX_RETRIES
    /\ Sleeps[1].wait = 240
    /\ Sleeps[5].wait = 1215 + PEERINGDB_JITTER

\* C16: merging the same detail record into an item a second time leaves the item
\* equal to the item after the first merge, for every item and every record.
C16_IdempotentMerge ==
    pc = "merged_twice" => features[1] = MergeDetails(collection[1], ret.value)

\* A record with landing points and a key outside the allow-list was merged twice
\* into an item that already carried a landing_points list.
C16_Witness ==
    /\ pc = "merged_twice"
    /\ "landing_points" \in DOMAIN collection[1].properties
    /\ {"landing_points", "name", "length"} \subseteq DOMAIN ret.value
    /\ features[1].properties.landing_points = << "Bude" >>
    /\ features[1] # collection[1]

\* C17: in a retrying fetch a backoff sleep is taken after a failed attempt and
\* before the next attempt, exactly one between two consecutive attempts, and none
\* when no further attempt follows: a call that has ended took no sleep after its
\* last attempt.
C17_BackoffPlacement ==
    (Retrying /\ trace # << >>) =>
        /\ trace[1].ev = "attempt"
        /\ \A j \in 1..(Len(trace) - 1) : trace[j].ev # trace[j + 1].ev
        /\ pc \in {"returned", "raised"} => trace[Len(trace)].ev = "attempt"

\* The documents a fetch of the running script can be answered with.
DocsOf(s) ==
    CASE s \in {"osm_power", "osm_power_node_primary"} -> OverpassDocs
      [] s = "peeringdb_datasets" -> PeeringDocs
      [] OTHER -> SubmarineDocs

\* What the fetcher of the running script does with a parsed response.
ReturnedOn(r) ==
    CASE script = "osm_power" -> fetch_overpass_iter(r)
      [] script = "osm_power_node_primary" -> download_tag_iter(r)
      [] OTHER -> fetch_json_iter(1, r, 1)

\* The values a caller can receive for a Success: what the fetcher returns on a 200
\* response with a JSON body it accepts.
SuccessValues ==
    { ReturnedOn(Resp("json", d)).ret :
        d \in { e \in DocsOf(script) : ReturnedOn(Resp("json", e)).next = "return" } }

\* C18: the value a caller receives for a terminal Failure differs from every value
\* it can receive for a Success (in particular from a successfully fetched empty
\* JSON document), so the caller can tell which variant occurred.
C18_Distinguishable ==
    TerminalFailure => ret \notin SuccessValues

\* The attempts one fetch call may make: one per endpoint for the failover fetchers,
\* retries on the single URL of fetch_json.
AttemptBound ==
    CASE Failover -> Len(EndpointsOf(script))
      [] script = "peeringdb_datasets" -> PEERINGDB_MAX_RETRIES
      [] OTHER -> MAX_RETRIES

\* The enrichment pipeline has ended with all items completed and the output written.
PipelineCompleted ==
    /\ pc = "done"
    /\ AllCollected(results)
    /\ Written # {}

\* C19: every fetch ends after at most |endpoints| x R attempts, and the enrichment
\* pipeline, once its items are submitted, goes on (some step is possible) until all
\* items have completed and the output is written, whatever the per-item outcomes.
C19_Termination ==
    /\ Len(Attempts) <= AttemptBound
    /\ \A i \in DOMAIN calls : calls[i] <= MAX_RETRIES
    /\ (Submarine /\ fut # << >>) => (PipelineCompleted \/ ENABLED Next)

====
